---- MODULE Spec2Model ----
(***************************************************************************)
(* InkyPi: the main program (src/src/inkypi.py), the Display Manager       *)
(* (src/src/display/display_manager.py), the LED strip controller          *)
(* (src/src/utils/led_controller.py) and the Refresh Scheduler.            *)
(* refresh_task.py is not among the sources; the scheduler (start, stop,   *)
(* manual_update, the tick loop and its single-flight lock) is modelled    *)
(* from spec.md sections 4.1 and 5.                                        *)
(***************************************************************************)
EXTENDS Integers, Sequences, FiniteSets

\* ------------------------------------------------------------- bounds
NumPlugins == 2     \* plugin instances of the active playlist
MaxThreads == 1     \* button-press daemon threads alive at a time, in Spec
MaxButtonThreads == 2   \* button-press daemon threads there are (in SpecNext all
                        \* may be alive at a time)
MaxTime == 2        \* the clock runs Interval..MaxTime
Interval == 1       \* configured refresh interval of every plugin instance

\* ------------------------------------------------------------ threads
Buttons == 1..MaxButtonThreads
SchedT == MaxButtonThreads + 1
MainT == MaxButtonThreads + 2
Threads == Buttons \cup {SchedT, MainT}

\* ------------------------------------------------------------- images
PluginIdx == 0..(NumPlugins - 1)
NoIndex == -1                  \* current_plugin_index is None
StartupSrc == NumPlugins + 1   \* generate_startup_image
BlankSrc == NumPlugins + 2     \* Image.new(... (255, 255, 255))
NoSrc == NumPlugins + 3

NoImage == [src |-> NoSrc, size |-> "none", ops |-> <<>>, fit |-> <<>>, overlay |-> <<>>]
PluginImage(p) == [src |-> p, size |-> "raw", ops |-> <<>>, fit |-> <<>>, overlay |-> <<>>]
StartupImage == [src |-> StartupSrc, size |-> "device", ops |-> <<>>, fit |-> <<>>, overlay |-> <<>>]
BlankImage == [src |-> BlankSrc, size |-> "device", ops |-> <<>>, fit |-> <<>>, overlay |-> <<>>]

NoCall == [image |-> NoImage, settings |-> <<>>, inverted |-> FALSE]

VARIABLES
    now,          \* the clock
    running,      \* the scheduler's run flag (cleared by stop())
    lock,         \* the single-flight lock: the set of its holders
    pc,           \* each thread's position
    act,          \* each thread's refresh action: its target plugin
    img,          \* each thread's local image variable
    inflight,     \* the Device Driver's calls in progress, by calling thread
    result,       \* how the thread's pipeline ended: "none", "ok", "error"
    doneAt,       \* the time the thread's display_image call returned
    snapshot,     \* device_config.current_image_file
    lastRefresh,  \* last-refresh timestamp of each plugin instance
    curIndex,     \* playlist.current_plugin_index
    startup,      \* device_config "startup"
    ovFailed,     \* button threads whose display_overlay has just logged a failure
    rendered,     \* threads whose current display_image really reached the panel
    snapBefore,   \* the snapshot as each display_image call found it
    displayed,    \* the panel: the image of the dispatch that reached the driver last
    deviceConfig, \* device_config: whether display_type is set, and its value
    loadedDrivers,\* the hardware driver classes the optional imports defined
    display,      \* DisplayManager.display: the driver instance's class, or "none"
    ctorError,    \* what DisplayManager.__init__ raised: "none" while it has not
    position,     \* display_overlay's position argument
    baseSize,     \* <<base.width, base.height>> of the overlay's base image
    textBox,      \* the overlay text's length and its measured bounding box
    box,          \* the rectangle display_overlay draws: <<x, y, x2, y2>>
    interval,     \* the refresh interval the plugin instances are configured with
    led,          \* LEDStripController.led: "OutputDevice", or "None" when disabled
    is_on,        \* LEDStripController.is_on
    pin,          \* the state last successfully written to the LED pin
    ledLock,      \* LEDStripController._lock: the set of its holders
    ledPc,        \* each LED caller's operation and its position in it
    status,       \* what each caller's last get_status returned
    ticks         \* the ticks that are counted (in SpecTicks): the playlist index
                  \* each of them found, in order

vars == <<now, running, lock, pc, act, img, inflight, result, doneAt, snapshot,
          lastRefresh, curIndex, startup, ovFailed, rendered, snapBefore, displayed,
          deviceConfig, loadedDrivers, display, ctorError, position, baseSize,
          textBox, box, interval, led, is_on, pin, ledLock, ledPc, status, ticks>>

\* the Display Manager's construction state and one overlay box computation
ctorVars == <<deviceConfig, loadedDrivers, display, ctorError>>

boxVars == <<position, baseSize, textBox, box>>

\* what the scheduler is configured with
schedConf == <<interval>>

\* the LED strip controller
ledVars == <<led, is_on, pin, ledLock, ledPc, status>>

\* ---------------------------------------------------- Display Manager
\* utils.image_utils, as display_image uses it: each step is recorded on the image
ChangeOrientation(image) == [image EXCEPT !.ops = Append(@, "orientation")]

ResizeImage(image, settings) ==
    [image EXCEPT !.ops = Append(@, "resize"), !.size = "device", !.fit = settings]

Rotate180(image) == [image EXCEPT !.ops = Append(@, "rotate180")]

ApplyImageEnhancement(image) == [image EXCEPT !.ops = Append(@, "enhance")]

\* a pipeline that rotates whatever the inverted flag says
TransformAlwaysRotates(image, settings, inv) ==
    ApplyImageEnhancement(Rotate180(ResizeImage(ChangeOrientation(image), settings)))

\* display_image, lines 80-83
Transform(image, settings, inv) ==
    LET oriented == ChangeOrientation(image)
        resized == ResizeImage(oriented, settings)
        turned == IF inv THEN Rotate180(resized) ELSE resized
    IN  ApplyImageEnhancement(turned)

\* display_image, line 86: self.display.display_image(image, image_settings)
\* (with the inverted_image flag this call read at line 82)
DriverArgs(raw, final, settings, inv) ==
    [image |-> final, settings |-> settings, inverted |-> inv]

\* a display_image that swallows the driver's exception, as display_overlay does
DisplayImageSwallows(stepOk) == "ok"

\* display_image has no handler: an exception of a step reaches the caller
DisplayImageResult(stepOk) == IF stepOk THEN "ok" ELSE "error"

\* a display_overlay whose handler lets a failure through
DisplayOverlayRaises(stepOk) == IF stepOk THEN "returned" ELSE "raised"

\* display_overlay, lines 95 and 141-142: try ... except Exception: log
DisplayOverlayResult(stepOk) == "returned"

\* display_overlay, lines 97-100: a copy of the snapshot, or a blank canvas
OverlayBase(snap) == IF snap # NoImage THEN snap ELSE BlankImage

\* display_overlay, lines 102-137: the box and the text drawn on the copy
OverlayDraw(base, text) == [base EXCEPT !.overlay = Append(@, text)]

\* ------------------------------------------- Display Manager construction
\* device type strings, character by character
TypeMock == <<"m", "o", "c", "k">>
TypeInky == <<"i", "n", "k", "y">>
TypeEpd7in5 == <<"e", "p", "d", "7", "i", "n", "5">>
TypeEpd2in13 == <<"e", "p", "d", "2", "i", "n", "1", "3">>
TypeEpdin == <<"e", "p", "d", "i", "n">>
TypeEpd7in5V2 == <<"e", "p", "d", "7", "i", "n", "5", "_", "V", "2">>
TypeBanana == <<"b", "a", "n", "a", "n", "a">>
TypeEmpty == <<>>
TypeMockUpper == <<"M", "o", "c", "k">>
TypeMockup == <<"m", "o", "c", "k", "u", "p">>
TypeInky2 == <<"i", "n", "k", "y", "2">>
TypeEpd == <<"e", "p", "d">>
TypeEpd7 == <<"e", "p", "d", "7">>
TypeXepd7in5 == <<"x", "e", "p", "d", "7", "i", "n", "5">>
TypeEpdni == <<"e", "p", "d", "n", "i">>
TypeEpdUpper == <<"E", "P", "D", "7", "I", "N", "5">>
TypeWaveshare == <<"w", "a", "v", "e", "s", "h", "a", "r", "e">>

DeviceTypes ==
    {TypeMock, TypeInky, TypeEpd7in5, TypeEpd2in13, TypeEpdin, TypeEpd7in5V2,
     TypeBanana, TypeEmpty, TypeMockUpper, TypeMockup, TypeInky2, TypeEpd, TypeEpd7,
     TypeXepd7in5, TypeEpdni, TypeEpdUpper, TypeWaveshare}

\* the waveshare family pattern of line 48
FamilyPattern == <<"e", "p", "d", "*", "i", "n", "*">>

\* lines 13-21: the classes an import may fail to define (MockDisplay, line 7, is
\* imported unconditionally)
OptionalDrivers == {"InkyDisplay", "WaveshareDisplay"}

\* device_config.get_config("display_type", default="inky"), line 42
GetDisplayType(cfg) == IF cfg.has THEN cfg.display_type ELSE TypeInky

\* fnmatch.fnmatch(name, pat) on a case-sensitive platform: "*" is any run of
\* characters, "?" any one character, anything else itself
RECURSIVE FnMatch(_, _)
FnMatch(name, pat) ==
    IF pat = <<>> THEN name = <<>>
    ELSE IF Head(pat) = "*"
         THEN FnMatch(name, Tail(pat)) \/ (name # <<>> /\ FnMatch(Tail(name), pat))
         ELSE /\ name # <<>>
              /\ (Head(pat) = "?" \/ Head(pat) = Head(name))
              /\ FnMatch(Tail(name), Tail(pat))

\* lines 44-57: the class the matching branch names, "none" for the else branch
SelectDriver(displayType) ==
    IF displayType = TypeMock THEN "MockDisplay"
    ELSE IF displayType = TypeInky THEN "InkyDisplay"
    ELSE IF FnMatch(displayType, FamilyPattern) THEN "WaveshareDisplay"
    ELSE "none"

\* DisplayManager.__init__, lines 40-57: the else branch raises ValueError; a
\* branch naming a class whose import failed raises NameError; self.display is
\* assigned only when the class was instantiated
Construct ==
    /\ display = "none"
    /\ ctorError = "none"
    /\ LET cls == SelectDriver(GetDisplayType(deviceConfig)) IN
         IF cls = "none"
         THEN /\ ctorError' = "ValueError"
              /\ UNCHANGED display
         ELSE IF cls \in OptionalDrivers /\ cls \notin loadedDrivers
         THEN /\ ctorError' = "NameError"
              /\ UNCHANGED display
         ELSE /\ display' = cls
              /\ UNCHANGED ctorError
    /\ UNCHANGED <<deviceConfig, loadedDrivers>>

\* ------------------------------------------------------- the overlay box
Padding == 12
Inset == 15
FallbackCharWidth == 8
FallbackTextHeight == 14

\* lines 111-118: the text's size from its bounding box, or the estimate
TextSize(tb) ==
    IF tb.bbox # <<>>
    THEN <<tb.bbox[3] - tb.bbox[1], tb.bbox[4] - tb.bbox[2]>>
    ELSE <<tb.len * FallbackCharWidth, FallbackTextHeight>>

\* a box that anchors left only for "left" and top only for "top"
OverlayBoxNamesLeftTop(pos, size, tb) ==
    LET box_w == TextSize(tb)[1] + Padding * 2
        box_h == TextSize(tb)[2] + Padding * 2
        x == IF pos[1] = "left" THEN Inset ELSE size[1] - box_w - Inset
        y == IF pos[2] = "top" THEN Inset ELSE size[2] - box_h - Inset
    IN  <<x, y, x + box_w, y + box_h>>

\* lines 120-135: the rectangle, anchored by the two elements of position
OverlayBox(pos, size, tb) ==
    LET box_w == TextSize(tb)[1] + Padding * 2
        box_h == TextSize(tb)[2] + Padding * 2
        x == IF pos[1] = "right" THEN size[1] - box_w - Inset ELSE Inset
        y == IF pos[2] = "bottom" THEN size[2] - box_h - Inset ELSE Inset
    IN  <<x, y, x + box_w, y + box_h>>

\* display_overlay computes and draws the box
ComputeBox ==
    /\ box = <<>>
    /\ box' = OverlayBox(position, baseSize, textBox)
    /\ UNCHANGED <<position, baseSize, textBox>>

\* ------------------------------------------------------- main program
\* the settings list each caller passes to display_image
CallSettings(t) == IF t = MainT THEN <<>> ELSE <<act[t]>>

\* the image as the caller passed it to display_image
RawInput(t) == IF t = MainT THEN StartupImage ELSE PluginImage(act[t])

\* a handler that leaves the force flag off
ManualForceOff == FALSE

\* PlaylistRefresh(playlist, plugin_instance, force=True), lines 109 and 142
ManualForce == TRUE

\* handle_refresh, lines 101-106
RefreshTarget(idx) == IF idx = NoIndex THEN 0 ELSE idx

\* Playlist.get_next_plugin: advance_cyclic, wraps to 0 past the end
NextIndex(idx) ==
    IF idx = NoIndex THEN 0 ELSE (idx + 1) % Cardinality(DOMAIN lastRefresh)

\* a thread function without the handler
DoRefreshNoHandler == "uncaught"

\* _do_refresh / _do_next_refresh, except Exception: log, thread returns
DoRefreshExcept == "none"

\* a button thread that runs the pipeline itself instead of manual_update
DoRefreshBypassesScheduler(ovResult) ==
    IF ovResult = "returned" THEN "generate" ELSE DoRefreshExcept

\* _do_refresh / _do_next_refresh: display_overlay, then manual_update
DoRefreshAfterOverlay(ovResult) ==
    IF ovResult = "returned" THEN "acquire" ELSE DoRefreshExcept

\* ---------------------------------------------------------- predicates
Alive == pc[MainT] \notin {"exited", "crashed"}

ButtonsReady == pc[MainT] \in {"di_save", "di_transform", "di_render",
                               "startup_done", "serve"}

InDisplayImage(t) == pc[t] \in {"di_save", "di_transform", "di_render"}

InPipeline(t) == pc[t] = "generate" \/ InDisplayImage(t)

InOverlay(t) == pc[t] \in {"overlay", "ov_render"}

\* a plugin instance that is due only once more than the interval has elapsed
DueAfterInterval(p) == now - lastRefresh[p] > interval

\* elapsed >= configured_interval, with timestamps that are not before the clock's 0
Due(p) == now - lastRefresh[p] >= interval

\* ------------------------------------------------- LED strip controller
\* threads that call the controller at the same time (button callbacks, web
\* requests)
LedThreads == 2

LedCallers == 1..LedThreads

LedIdle == [op |-> "none", at |-> "idle"]

\* the controller shares no state with the rest of the program
LedAlone ==
    UNCHANGED <<now, running, lock, pc, act, img, inflight, result, doneAt, snapshot,
                lastRefresh, curIndex, startup, ovFailed, rendered, snapBefore,
                displayed, ctorVars, boxVars, schedConf, ticks>>

\* the controller as the main program has it: initialised, the strip off, no
\* call under way
LedControllerReady ==
    /\ led = "OutputDevice"
    /\ is_on = FALSE
    /\ pin = FALSE
    /\ ledLock = {}
    /\ ledPc = [t \in LedCallers |-> LedIdle]
    /\ status = [t \in LedCallers |-> "none"]

\* a mutating operation's entry: with no device it logs a warning and returns
LedEnter(t, op) ==
    /\ ledPc[t] = LedIdle
    /\ IF led = "None"
          THEN UNCHANGED ledPc
          ELSE ledPc' = [ledPc EXCEPT ![t] = [op |-> op, at |-> "lock"]]
    /\ UNCHANGED <<led, is_on, pin, ledLock, status>>
    /\ LedAlone

Toggle(t) == LedEnter(t, "toggle")

TurnOn(t) == LedEnter(t, "turn_on")

TurnOff(t) == LedEnter(t, "turn_off")

\* get_status takes the lock whether or not there is a device
GetStatus(t) ==
    /\ ledPc[t] = LedIdle
    /\ ledPc' = [ledPc EXCEPT ![t] = [op |-> "get_status", at |-> "lock"]]
    /\ UNCHANGED <<led, is_on, pin, ledLock, status>>
    /\ LedAlone

\* with self._lock: entry
LedLockEnter(t) ==
    /\ ledPc[t].at = "lock"
    /\ ledLock = {}
    /\ ledLock' = {t}
    /\ ledPc' = [ledPc EXCEPT ![t].at = "body"]
    /\ UNCHANGED <<led, is_on, pin, status>>
    /\ LedAlone

\* toggle: self.is_on = not self.is_on
ToggleFlip(t) ==
    /\ ledPc[t] = [op |-> "toggle", at |-> "body"]
    /\ is_on' = ~is_on
    /\ ledPc' = [ledPc EXCEPT ![t].at = "write"]
    /\ UNCHANGED <<led, pin, ledLock, status>>
    /\ LedAlone

\* toggle: self.led.on() or self.led.off() by the flag; the call may raise, the
\* handler logs
ToggleWrite(t) ==
    /\ ledPc[t] = [op |-> "toggle", at |-> "write"]
    /\ \E raises \in BOOLEAN :
          IF raises THEN UNCHANGED pin ELSE pin' = is_on
    /\ ledPc' = [ledPc EXCEPT ![t].at = "exit"]
    /\ UNCHANGED <<led, is_on, ledLock, status>>
    /\ LedAlone

\* the state turn_on / turn_off is to bring about
Target(op) == op = "turn_on"

\* turn_on: if not self.is_on; turn_off: if self.is_on
TurnCheck(t) ==
    /\ ledPc[t].op \in {"turn_on", "turn_off"}
    /\ ledPc[t].at = "body"
    /\ ledPc' = [ledPc EXCEPT ![t].at =
                    IF is_on # Target(ledPc[t].op) THEN "write" ELSE "exit"]
    /\ UNCHANGED <<led, is_on, pin, ledLock, status>>
    /\ LedAlone

\* turn_on: self.led.on(); turn_off: self.led.off(); a raise skips the flag's
\* assignment
TurnWrite(t) ==
    /\ ledPc[t].op \in {"turn_on", "turn_off"}
    /\ ledPc[t].at = "write"
    /\ \E raises \in BOOLEAN :
          IF raises
             THEN /\ UNCHANGED pin
                  /\ ledPc' = [ledPc EXCEPT ![t].at = "exit"]
             ELSE /\ pin' = Target(ledPc[t].op)
                  /\ ledPc' = [ledPc EXCEPT ![t].at = "set"]
    /\ UNCHANGED <<led, is_on, ledLock, status>>
    /\ LedAlone

\* turn_on: self.is_on = True; turn_off: self.is_on = False
TurnSet(t) ==
    /\ ledPc[t].op \in {"turn_on", "turn_off"}
    /\ ledPc[t].at = "set"
    /\ is_on' = Target(ledPc[t].op)
    /\ ledPc' = [ledPc EXCEPT ![t].at = "exit"]
    /\ UNCHANGED <<led, pin, ledLock, status>>
    /\ LedAlone

\* get_status: return {"is_on": self.is_on}
GetStatusRead(t) ==
    /\ ledPc[t] = [op |-> "get_status", at |-> "body"]
    /\ status' = [status EXCEPT ![t] = is_on]
    /\ ledPc' = [ledPc EXCEPT ![t].at = "exit"]
    /\ UNCHANGED <<led, is_on, pin, ledLock>>
    /\ LedAlone

\* with self._lock: exit, and the operation returns
LedLockExit(t) ==
    /\ ledPc[t].at = "exit"
    /\ ledLock' = ledLock \ {t}
    /\ ledPc' = [ledPc EXCEPT ![t] = LedIdle]
    /\ UNCHANGED <<led, is_on, pin, status>>
    /\ LedAlone

\* ---------------------------------------------------------------- Init
ProgramInit ==
    /\ now = Interval
    /\ running = FALSE
    /\ lock = {}
    /\ pc = [t \in Threads |->
               IF t = MainT THEN "init" ELSE IF t = SchedT THEN "notstarted" ELSE "none"]
    /\ act = [t \in Threads |-> 0]
    /\ img = [t \in Threads |-> NoImage]
    /\ inflight = [t \in Threads |-> NoCall]
    /\ result = [t \in Threads |-> "none"]
    /\ doneAt = [t \in Threads |-> 0]
    /\ snapshot = NoImage
    /\ lastRefresh = [p \in PluginIdx |-> 0]
    /\ curIndex \in PluginIdx \cup {NoIndex}
    /\ startup \in BOOLEAN
    /\ ovFailed = {}
    /\ rendered = {}
    /\ snapBefore = [t \in Threads |-> NoImage]
    /\ displayed = NoImage

\* the program as inkypi.py runs it: the Display Manager was constructed (line
\* 186) for the mock driver, and display_overlay is called with its defaults
DisplayManagerReady ==
    /\ deviceConfig = [has |-> TRUE, display_type |-> TypeMock]
    /\ loadedDrivers = {}
    /\ display = "MockDisplay"
    /\ ctorError = "none"
    /\ position = <<"right", "bottom">>
    /\ baseSize = <<0, 0>>
    /\ textBox = [len |-> 0, bbox |-> <<>>]
    /\ box = <<>>

Init ==
    /\ ProgramInit
    /\ DisplayManagerReady
    /\ interval = Interval
    /\ ticks = <<>>
    /\ LedControllerReady

\* --------------------------------------------------------------- clock
\* a time unit passes, up to the given time
Clock(limit) ==
    /\ Alive
    /\ now < limit
    /\ now' = now + 1
    /\ UNCHANGED <<ctorVars, boxVars, ledVars, schedConf, ticks, displayed, running, lock, pc, act,
                  img, inflight, result, doneAt, snapshot, lastRefresh, curIndex, startup,
                  ovFailed, rendered, snapBefore>>

ClockTick == Clock(MaxTime)

\* ------------------------------------------------ DisplayManager steps
\* how display_image leaves: to its caller's next statement, or raising
DisplayImageExit(t, stepOk) ==
    LET r == DisplayImageResult(stepOk) IN
    /\ img' = [img EXCEPT ![t] = NoImage]
    /\ snapBefore' = [snapBefore EXCEPT ![t] = NoImage]
    /\ IF t = MainT
       THEN /\ pc' = [pc EXCEPT ![t] = IF r = "ok" THEN "startup_done" ELSE "crashed"]
            /\ UNCHANGED <<result, doneAt>>
       ELSE /\ pc' = [pc EXCEPT ![t] = "release"]
            /\ result' = [result EXCEPT ![t] = r]
            /\ doneAt' = [doneAt EXCEPT ![t] = now]

\* display_image, lines 72-77: image.save(current_image_file)
DisplayImageSave(t) ==
    /\ Alive
    /\ pc[t] = "di_save"
    /\ \E ok \in BOOLEAN :
         IF ok
         THEN /\ snapshot' = img[t]
              /\ pc' = [pc EXCEPT ![t] = "di_transform"]
              /\ UNCHANGED <<img, result, doneAt, snapBefore>>
         ELSE /\ DisplayImageExit(t, FALSE)
              /\ UNCHANGED snapshot
    /\ UNCHANGED <<ctorVars, boxVars, ledVars, schedConf, ticks, displayed, now, running, lock, act, inflight, lastRefresh, curIndex, startup,
                  ovFailed, rendered>>

\* display_image, lines 80-86: the transformation, then the driver is entered
DisplayImageDispatch(t) ==
    /\ Alive
    /\ pc[t] = "di_transform"
    /\ \E ok, inv \in BOOLEAN :
         IF ok
         THEN LET final == Transform(img[t], CallSettings(t), inv) IN
              /\ img' = [img EXCEPT ![t] = final]
              /\ inflight' = [inflight EXCEPT ![t] =
                                DriverArgs(img[t], final, CallSettings(t), inv)]
              /\ displayed' = final
              /\ pc' = [pc EXCEPT ![t] = "di_render"]
              /\ UNCHANGED <<result, doneAt, snapBefore>>
         ELSE /\ DisplayImageExit(t, FALSE)
              /\ UNCHANGED <<inflight, displayed>>
    /\ UNCHANGED <<ctorVars, boxVars, ledVars, schedConf, ticks, now, running, lock, act, snapshot, lastRefresh, curIndex, startup,
                  ovFailed, rendered>>

\* display_image, line 86: the driver's render returns or raises
DisplayImageDriverReturn(t) ==
    /\ Alive
    /\ pc[t] = "di_render"
    /\ \E ok \in BOOLEAN :
         /\ rendered' = IF ok /\ t # MainT THEN rendered \cup {t} ELSE rendered
         /\ DisplayImageExit(t, ok)
    /\ inflight' = [inflight EXCEPT ![t] = NoCall]
    /\ UNCHANGED <<ctorVars, boxVars, ledVars, schedConf, ticks, displayed, now, running, lock, act, snapshot, lastRefresh, curIndex, startup,
                  ovFailed>>

\* how display_overlay leaves, and where _do_refresh goes next
DisplayOverlayExit(t, stepOk) ==
    /\ pc' = [pc EXCEPT ![t] = DoRefreshAfterOverlay(DisplayOverlayResult(stepOk))]
    /\ img' = [img EXCEPT ![t] = NoImage]
    /\ ovFailed' = IF stepOk THEN ovFailed ELSE ovFailed \cup {t}

\* a display_overlay that saves the composed image over the snapshot
DisplayOverlayComposeSaves(t) ==
    /\ Alive
    /\ pc[t] = "overlay"
    /\ \E ok \in BOOLEAN :
         IF ok
         THEN LET base == OverlayDraw(OverlayBase(snapshot), "Updating...") IN
              /\ img' = [img EXCEPT ![t] = base]
              /\ snapshot' = base
              /\ inflight' = [inflight EXCEPT ![t] =
                                [image |-> base, settings |-> <<>>, inverted |-> FALSE]]
              /\ displayed' = base
              /\ pc' = [pc EXCEPT ![t] = "ov_render"]
              /\ UNCHANGED ovFailed
         ELSE /\ DisplayOverlayExit(t, FALSE)
              /\ UNCHANGED <<inflight, snapshot, displayed>>
    /\ UNCHANGED <<ctorVars, boxVars, ledVars, schedConf, ticks, now, running, lock, act, result, doneAt, lastRefresh, curIndex,
                  startup, rendered, snapBefore>>

\* a display_overlay that waits for the single-flight lock to be free
DisplayOverlayComposeWaits(t) ==
    /\ Alive
    /\ pc[t] = "overlay"
    /\ lock = {}
    /\ \E ok \in BOOLEAN :
         IF ok
         THEN LET base == OverlayDraw(OverlayBase(snapshot), "Updating...") IN
              /\ img' = [img EXCEPT ![t] = base]
              /\ inflight' = [inflight EXCEPT ![t] =
                                [image |-> base, settings |-> <<>>, inverted |-> FALSE]]
              /\ displayed' = base
              /\ pc' = [pc EXCEPT ![t] = "ov_render"]
              /\ UNCHANGED ovFailed
         ELSE /\ DisplayOverlayExit(t, FALSE)
              /\ UNCHANGED <<inflight, displayed>>
    /\ UNCHANGED <<ctorVars, boxVars, ledVars, schedConf, ticks, now, running, lock, act, result, doneAt, snapshot, lastRefresh,
                  curIndex, startup, rendered, snapBefore>>

\* display_overlay, lines 96-140: load the snapshot (or a blank), draw the box on
\* the copy and enter the driver with it, no lock taken; or fail on the way
DisplayOverlayCompose(t) ==
    /\ Alive
    /\ pc[t] = "overlay"
    /\ \E ok \in BOOLEAN :
         IF ok
         THEN LET base == OverlayDraw(OverlayBase(snapshot), "Updating...") IN
              /\ img' = [img EXCEPT ![t] = base]
              /\ inflight' = [inflight EXCEPT ![t] =
                                [image |-> base, settings |-> <<>>, inverted |-> FALSE]]
              /\ displayed' = base
              /\ pc' = [pc EXCEPT ![t] = "ov_render"]
              /\ UNCHANGED ovFailed
         ELSE /\ DisplayOverlayExit(t, FALSE)
              /\ UNCHANGED <<inflight, displayed>>
    /\ UNCHANGED <<ctorVars, boxVars, ledVars, schedConf, ticks, now, running, lock, act, result, doneAt, snapshot, lastRefresh,
                  curIndex, startup, rendered, snapBefore>>

\* display_overlay, lines 140-142: the driver's render returns or raises
DisplayOverlayDriverReturn(t) ==
    /\ Alive
    /\ pc[t] = "ov_render"
    /\ \E ok \in BOOLEAN : DisplayOverlayExit(t, ok)
    /\ inflight' = [inflight EXCEPT ![t] = NoCall]
    /\ UNCHANGED <<ctorVars, boxVars, ledVars, schedConf, ticks, displayed, now, running, lock, act, result, doneAt, snapshot, lastRefresh,
                  curIndex, startup, rendered, snapBefore>>

\* --------------------------------------------------- Refresh Scheduler
\* the background loop's tick (Deciding): with a current plugin instance that is
\* due, a refresh action is to be executed under the single-flight lock
Tick ==
    /\ Alive
    /\ pc[SchedT] = "idle"
    /\ running
    /\ IF curIndex # NoIndex /\ Due(curIndex)
       THEN pc' = [pc EXCEPT ![SchedT] = "acquire"]
       ELSE UNCHANGED pc
    /\ UNCHANGED act
    /\ UNCHANGED <<ctorVars, boxVars, ledVars, schedConf, displayed, now, running, lock, img, inflight, result, doneAt, snapshot,
                  lastRefresh, curIndex, startup, ovFailed, rendered,
                  snapBefore>>

\* a tick of the free-running loop
SchedTick ==
    /\ Tick
    /\ UNCHANGED ticks

\* the loop sees the stop request between two ticks and exits
SchedExit ==
    /\ Alive
    /\ pc[SchedT] = "idle"
    /\ ~running
    /\ pc' = [pc EXCEPT ![SchedT] = "exited"]
    /\ UNCHANGED <<ctorVars, boxVars, ledVars, schedConf, ticks, displayed, now, running, lock, act, img, inflight, result, doneAt, snapshot,
                  lastRefresh, curIndex, startup, ovFailed, rendered,
                  snapBefore>>

\* the single-flight lock is taken: by manual_update's caller, whose action names
\* its target; or by the tick, which reads the playlist's index under the lock,
\* its target the plugin instance there, and has no action for an invalid index;
\* an action is executed when it is due or forced
Acquire(t) ==
    /\ Alive
    /\ pc[t] = "acquire"
    /\ lock = {}
    /\ lock' = {t}
    /\ IF (IF t = SchedT THEN curIndex \notin DOMAIN lastRefresh
                         ELSE ~(ManualForce \/ Due(act[t])))
       THEN /\ pc' = [pc EXCEPT ![t] = "release"]
            /\ UNCHANGED act
       ELSE /\ pc' = [pc EXCEPT ![t] = "generate"]
            /\ act' = [act EXCEPT ![t] = IF t = SchedT THEN curIndex ELSE @]
    /\ ovFailed' = ovFailed \ {t}
    /\ UNCHANGED <<ctorVars, boxVars, ledVars, schedConf, ticks, displayed, now, running, img, inflight, result, doneAt, snapshot,
                  lastRefresh, curIndex, startup, rendered, snapBefore>>

\* the plugin instance generates its image, or fails
Generate(t) ==
    /\ Alive
    /\ pc[t] = "generate"
    /\ \E ok \in BOOLEAN :
         IF ok
         THEN /\ img' = [img EXCEPT ![t] = PluginImage(act[t])]
              /\ snapBefore' = [snapBefore EXCEPT ![t] = snapshot]
              /\ pc' = [pc EXCEPT ![t] = "di_save"]
              /\ UNCHANGED result
         ELSE /\ result' = [result EXCEPT ![t] = "error"]
              /\ pc' = [pc EXCEPT ![t] = "release"]
              /\ UNCHANGED <<img, snapBefore>>
    /\ UNCHANGED <<ctorVars, boxVars, ledVars, schedConf, ticks, displayed, now, running, lock, act, inflight, doneAt, snapshot, lastRefresh,
                  curIndex, startup, ovFailed, rendered>>

\* the lock is released whatever the outcome; a failure is logged by the loop,
\* or raised to manual_update's caller, whose handler logs it
Release(t) ==
    /\ Alive
    /\ pc[t] = "release"
    /\ lock' = lock \ {t}
    /\ IF result[t] = "ok"
       THEN /\ pc' = [pc EXCEPT ![t] = "bookkeep"]
            /\ UNCHANGED <<act, result, doneAt, rendered>>
       ELSE /\ pc' = [pc EXCEPT ![t] = IF t = SchedT THEN "idle" ELSE DoRefreshExcept]
            /\ act' = [act EXCEPT ![t] = 0]
            /\ result' = [result EXCEPT ![t] = "none"]
            /\ doneAt' = [doneAt EXCEPT ![t] = 0]
            /\ rendered' = rendered \ {t}
    /\ UNCHANGED <<ctorVars, boxVars, ledVars, schedConf, ticks, displayed, now, running, img, inflight, snapshot, lastRefresh, curIndex,
                  startup, ovFailed, snapBefore>>

\* bookkeeping after a successful render: the target's last-refresh timestamp;
\* the loop also advances the playlist cursor
Bookkeep(t) ==
    /\ Alive
    /\ pc[t] = "bookkeep"
    /\ lastRefresh' = [lastRefresh EXCEPT ![act[t]] = doneAt[t]]
    /\ curIndex' = IF t = SchedT THEN NextIndex(curIndex) ELSE curIndex
    /\ pc' = [pc EXCEPT ![t] = IF t = SchedT THEN "idle" ELSE "none"]
    /\ act' = [act EXCEPT ![t] = 0]
    /\ result' = [result EXCEPT ![t] = "none"]
    /\ doneAt' = [doneAt EXCEPT ![t] = 0]
    /\ rendered' = rendered \ {t}
    /\ UNCHANGED <<ctorVars, boxVars, ledVars, schedConf, ticks, displayed, now, running, lock, img, inflight, snapshot, startup, ovFailed,
                   snapBefore>>

\* ------------------------------------------------------- main program
\* inkypi.py, line 213: refresh_task.start()
MainStart ==
    /\ pc[MainT] = "init"
    /\ running' = TRUE
    /\ pc' = [pc EXCEPT ![MainT] = "setup", ![SchedT] = "idle"]
    /\ UNCHANGED <<ctorVars, boxVars, ledVars, schedConf, ticks, displayed, now, lock, act, img, inflight, result, doneAt, snapshot,
                  lastRefresh, curIndex, startup, ovFailed, rendered,
                  snapBefore>>

\* inkypi.py, lines 216-223: setup_buttons; then, with the startup flag set, the
\* startup image goes to display_image, no lock taken
MainSetup ==
    /\ pc[MainT] = "setup"
    /\ IF startup
       THEN /\ img' = [img EXCEPT ![MainT] = StartupImage]
            /\ snapBefore' = [snapBefore EXCEPT ![MainT] = snapshot]
            /\ pc' = [pc EXCEPT ![MainT] = "di_save"]
       ELSE /\ pc' = [pc EXCEPT ![MainT] = "serve"]
            /\ UNCHANGED <<img, snapBefore>>
    /\ UNCHANGED <<ctorVars, boxVars, ledVars, schedConf, ticks, displayed, now, running, lock, act, inflight, result, doneAt, snapshot,
                  lastRefresh, curIndex, startup, ovFailed, rendered>>

\* inkypi.py, line 224: update_value("startup", False)
MainStartupDone ==
    /\ pc[MainT] = "startup_done"
    /\ startup' = FALSE
    /\ pc' = [pc EXCEPT ![MainT] = "serve"]
    /\ UNCHANGED <<ctorVars, boxVars, ledVars, schedConf, ticks, displayed, now, running, lock, act, img, inflight, result, doneAt, snapshot,
                  lastRefresh, curIndex, ovFailed, rendered, snapBefore>>

\* inkypi.py, lines 242-244: serve() ends, stop() requests termination
MainStop ==
    /\ pc[MainT] = "serve"
    /\ running' = FALSE
    /\ pc' = [pc EXCEPT ![MainT] = "stop_wait"]
    /\ UNCHANGED <<ctorVars, boxVars, ledVars, schedConf, ticks, displayed, now, lock, act, img, inflight, result, doneAt, snapshot,
                  lastRefresh, curIndex, startup, ovFailed, rendered,
                  snapBefore>>

\* stop() returns, the loop exited and the lock free; the process exits
MainStopJoined ==
    /\ pc[MainT] = "stop_wait"
    /\ pc[SchedT] = "exited"
    /\ lock = {}
    /\ pc' = [pc EXCEPT ![MainT] = "exited"]
    /\ UNCHANGED <<ctorVars, boxVars, ledVars, schedConf, ticks, displayed, now, running, lock, act, img, inflight, result, doneAt, snapshot,
                  lastRefresh, curIndex, startup, ovFailed, rendered,
                  snapBefore>>

\* stop() returns, the shutdown timeout elapsed first; the process exits
MainStopTimeout ==
    /\ pc[MainT] = "stop_wait"
    /\ ~(pc[SchedT] = "exited" /\ lock = {})
    /\ pc' = [pc EXCEPT ![MainT] = "exited"]
    /\ UNCHANGED <<ctorVars, boxVars, ledVars, schedConf, ticks, displayed, now, running, lock, act, img, inflight, result, doneAt, snapshot,
                  lastRefresh, curIndex, startup, ovFailed, rendered,
                  snapBefore>>

\* ------------------------------------------------------------- buttons
\* threading.Thread(target=..., daemon=True).start(): the thread the press starts
FreeThread(t) ==
    /\ t \in Buttons
    /\ pc[t] = "none"
    /\ \A u \in Buttons : u < t => pc[u] # "none"

\* the button threads alive
Overlapping == Cardinality({u \in Buttons : pc[u] # "none"})

\* handle_refresh, lines 87-121: the current plugin, rendered in a daemon thread
PressRefresh ==
    /\ ButtonsReady
    /\ Overlapping < MaxThreads
    /\ \E t \in Buttons :
         /\ FreeThread(t)
         /\ act' = [act EXCEPT ![t] = RefreshTarget(curIndex)]
         /\ pc' = [pc EXCEPT ![t] = "overlay"]
    /\ UNCHANGED <<ctorVars, boxVars, ledVars, schedConf, ticks, displayed, now, running, lock, img, inflight, result,
                   doneAt, snapshot, lastRefresh, curIndex, startup, ovFailed, rendered,
                   snapBefore>>

\* handle_next_plugin, lines 123-154: the cursor advances in the callback, the
\* new current plugin is rendered in a daemon thread
HandleNextPlugin ==
    /\ ButtonsReady
    /\ \E t \in Buttons :
         /\ FreeThread(t)
         /\ act' = [act EXCEPT ![t] = NextIndex(curIndex)]
         /\ pc' = [pc EXCEPT ![t] = "overlay"]
    /\ curIndex' = NextIndex(curIndex)
    /\ UNCHANGED <<ctorVars, boxVars, ledVars, schedConf, ticks, displayed, now, running, lock, img, inflight, result,
                   doneAt, snapshot, lastRefresh, startup, ovFailed, rendered, snapBefore>>

\* the next-plugin button is pressed
PressNext ==
    /\ Overlapping < MaxThreads
    /\ HandleNextPlugin

\* ---------------------------------------------------------------- Next
Next ==
    \/ ClockTick
    \/ MainStart
    \/ MainSetup
    \/ MainStartupDone
    \/ MainStop
    \/ MainStopJoined
    \/ MainStopTimeout
    \/ SchedTick
    \/ SchedExit
    \/ PressRefresh
    \/ PressNext
    \/ \E t \in Buttons \cup {SchedT} :
         \/ Acquire(t)
         \/ Generate(t)
         \/ Release(t)
         \/ Bookkeep(t)
    \/ \E t \in Threads :
         \/ DisplayImageSave(t)
         \/ DisplayImageDispatch(t)
         \/ DisplayImageDriverReturn(t)
    \/ \E t \in Buttons :
         \/ DisplayOverlayCompose(t)
         \/ DisplayOverlayDriverReturn(t)

Spec == Init /\ [][Next]_vars

\* ------------------------------------------------ next-button presses only
\* the program is serving, the startup flag off, the first interval not yet
\* elapsed (no plugin instance is due at any tick); nothing was displayed yet
InitNext ==
    /\ now = 0
    /\ running = TRUE
    /\ lock = {}
    /\ pc = [t \in Threads |->
               IF t = MainT THEN "serve" ELSE IF t = SchedT THEN "idle" ELSE "none"]
    /\ act = [t \in Threads |-> 0]
    /\ img = [t \in Threads |-> NoImage]
    /\ inflight = [t \in Threads |-> NoCall]
    /\ result = [t \in Threads |-> "none"]
    /\ doneAt = [t \in Threads |-> 0]
    /\ snapshot = NoImage
    /\ lastRefresh = [p \in PluginIdx |-> 0]
    /\ curIndex \in PluginIdx \cup {NoIndex}
    /\ startup = FALSE
    /\ ovFailed = {}
    /\ rendered = {}
    /\ snapBefore = [t \in Threads |-> NoImage]
    /\ displayed = NoImage
    /\ DisplayManagerReady
    /\ interval = Interval
    /\ ticks = <<>>
    /\ LedControllerReady

\* a step of a button thread in which no refresh fails
ThreadStepOk(t) ==
    /\ \/ DisplayOverlayCompose(t)
       \/ DisplayOverlayDriverReturn(t)
       \/ Acquire(t)
       \/ Generate(t)
       \/ DisplayImageSave(t)
       \/ DisplayImageDispatch(t)
       \/ DisplayImageDriverReturn(t)
       \/ Release(t)
       \/ Bookkeep(t)
    /\ result'[t] # "error"

\* next-button presses, as fast as they come; ticks, with nothing due
NextNext ==
    \/ HandleNextPlugin
    \/ SchedTick
    \/ \E t \in Buttons : ThreadStepOk(t)

SpecNext == InitNext /\ [][NextNext]_vars

\* --------------------------------------- one tick per time unit, no buttons
ScenarioPlugins == 3
ScenarioInterval == 60
ScenarioTicks == 61

\* the loop has just started at time 0 on a playlist of ScenarioPlugins plugin
\* instances, none refreshed since, each with the interval ScenarioInterval
InitTicks ==
    /\ now = 0
    /\ running = TRUE
    /\ lock = {}
    /\ pc = [t \in Threads |->
               IF t = MainT THEN "serve" ELSE IF t = SchedT THEN "idle" ELSE "none"]
    /\ act = [t \in Threads |-> 0]
    /\ img = [t \in Threads |-> NoImage]
    /\ inflight = [t \in Threads |-> NoCall]
    /\ result = [t \in Threads |-> "none"]
    /\ doneAt = [t \in Threads |-> 0]
    /\ snapshot = NoImage
    /\ lastRefresh = [p \in 0..(ScenarioPlugins - 1) |-> 0]
    /\ curIndex \in 0..(ScenarioPlugins - 1)
    /\ startup = FALSE
    /\ ovFailed = {}
    /\ rendered = {}
    /\ snapBefore = [t \in Threads |-> NoImage]
    /\ displayed = NoImage
    /\ DisplayManagerReady
    /\ interval = ScenarioInterval
    /\ ticks = <<>>
    /\ LedControllerReady

\* the tick of the current time unit: the first at time 0, one per unit
CountedTick ==
    /\ Len(ticks) = now
    /\ Len(ticks) < ScenarioTicks
    /\ Tick
    /\ ticks' = Append(ticks, curIndex)

\* the unit's tick is done, and so is the refresh it started: the next unit
UnitPasses ==
    /\ Len(ticks) = now + 1
    /\ pc[SchedT] = "idle"
    /\ Clock(ScenarioTicks)

NextTicks ==
    \/ CountedTick
    \/ UnitPasses
    \/ ThreadStepOk(SchedT)

SpecTicks == InitTicks /\ [][NextTicks]_vars

\* ------------------------------------------ DisplayManager(device_config)
\* any device configuration, any outcome of the optional imports
InitCtor ==
    /\ ProgramInit
    /\ curIndex = NoIndex
    /\ startup = FALSE
    /\ deviceConfig \in
          {[has |-> TRUE, display_type |-> ty] : ty \in DeviceTypes}
              \cup {[has |-> FALSE, display_type |-> TypeEmpty]}
    /\ loadedDrivers \in SUBSET OptionalDrivers
    /\ display = "none"
    /\ ctorError = "none"
    /\ position = <<"right", "bottom">>
    /\ baseSize = <<0, 0>>
    /\ textBox = [len |-> 0, bbox |-> <<>>]
    /\ box = <<>>
    /\ interval = Interval
    /\ ticks = <<>>
    /\ LedControllerReady

NextCtor ==
    /\ Construct
    /\ UNCHANGED <<now, running, lock, pc, act, img, inflight, result, doneAt, snapshot,
                  lastRefresh, curIndex, startup, ovFailed, rendered, snapBefore,
                  displayed, boxVars, ledVars, schedConf, ticks>>

SpecCtor == InitCtor /\ [][NextCtor]_vars

\* ------------------------------------- display_overlay(text, position)
Positions == {"left", "right", "top", "bottom", "center", "Right", "BOTTOM", ""}

BaseSizes == {<<800, 480>>, <<480, 800>>, <<40, 30>>}

TextBoxes ==
    {[len |-> 11, bbox |-> <<0, 0, 66, 11>>], [len |-> 11, bbox |-> <<1, 3, 61, 12>>],
     [len |-> 11, bbox |-> <<>>], [len |-> 0, bbox |-> <<>>]}

InitBox ==
    /\ ProgramInit
    /\ curIndex = NoIndex
    /\ startup = FALSE
    /\ deviceConfig = [has |-> TRUE, display_type |-> TypeMock]
    /\ loadedDrivers = {}
    /\ display = "MockDisplay"
    /\ ctorError = "none"
    /\ position \in Positions \X Positions
    /\ baseSize \in BaseSizes
    /\ textBox \in TextBoxes
    /\ box = <<>>
    /\ interval = Interval
    /\ ticks = <<>>
    /\ LedControllerReady

NextBox ==
    /\ ComputeBox
    /\ UNCHANGED <<now, running, lock, pc, act, img, inflight, result, doneAt, snapshot,
                  lastRefresh, curIndex, startup, ovFailed, rendered, snapBefore,
                  displayed, ctorVars, ledVars, schedConf, ticks>>

SpecBox == InitBox /\ [][NextBox]_vars

\* ------------------------------------------- LEDStripController calls
\* LEDStripController(): _initialize_led got the pin, or it did not
InitLed ==
    /\ ProgramInit
    /\ curIndex = NoIndex
    /\ startup = FALSE
    /\ DisplayManagerReady
    /\ interval = Interval
    /\ ticks = <<>>
    /\ led \in {"OutputDevice", "None"}
    /\ is_on = FALSE
    /\ pin = FALSE
    /\ ledLock = {}
    /\ ledPc = [t \in LedCallers |-> LedIdle]
    /\ status = [t \in LedCallers |-> "none"]

NextLed ==
    \E t \in LedCallers :
       \/ Toggle(t)
       \/ TurnOn(t)
       \/ TurnOff(t)
       \/ GetStatus(t)
       \/ LedLockEnter(t)
       \/ ToggleFlip(t)
       \/ ToggleWrite(t)
       \/ TurnCheck(t)
       \/ TurnWrite(t)
       \/ TurnSet(t)
       \/ GetStatusRead(t)
       \/ LedLockExit(t)

SpecLed == InitLed /\ [][NextLed]_vars

\* ============================================================== claims
Refreshers == Buttons \cup {SchedT}

LockedPcs == {"generate", "di_save", "di_transform", "di_render", "release"}

\* C1: across ticks and button-triggered manual calls (display_overlay, then
\* manual_update, in a thread of its own) the Device Driver never has two render
\* invocations in progress: its concurrent-call count never exceeds 1.
C1_DriverNeverConcurrent ==
    Cardinality({t \in Refreshers : inflight[t] # NoCall}) <= 1

\* C2: every call into display_image is made by a holder of the single-flight
\* lock, so no two display_image executions overlap; the startup-image call of
\* the main program included.
C2_DisplayImageUnderLock ==
    /\ \A t \in Threads : InDisplayImage(t) => t \in lock
    /\ Cardinality({t \in Threads : InDisplayImage(t)}) <= 1

\* C3: a manual_update issued while an automatic refresh is mid-render never
\* preempts it: in every state a step leads to, a button thread runs its
\* generate/render only with the scheduler outside its own, not holding the lock
\* and with no render of the scheduler in the driver; and the timestamp the manual
\* bookkeeping writes for its target is the time its own render completed.
C3_ManualQueuesBehindAutomatic ==
    [][\A t \in Buttons :
         /\ InPipeline(t)' =>
              /\ ~InPipeline(SchedT)'
              /\ SchedT \notin lock'
              /\ inflight'[SchedT] = NoCall
         /\ (pc[t] = "bookkeep" /\ pc'[t] # "bookkeep") =>
              /\ t \in rendered
              /\ lastRefresh'[act[t]] = doneAt[t]]_vars

\* manual_update is waiting for the lock while the automatic render is in the driver
C3_Witness ==
    \E t \in Buttons :
        /\ pc[t] = "acquire"
        /\ pc[SchedT] = "di_render"
        /\ inflight[SchedT] # NoCall
        /\ lock = {SchedT}

C5_FailureIsolated ==
    /\ Cardinality(lock) <= 1
    /\ \A t \in lock : pc[t] \in LockedPcs
    /\ pc[SchedT] = "exited" => ~running
    /\ pc[SchedT] \in {"notstarted", "idle", "acquire", "bookkeep", "exited"} \cup LockedPcs
    /\ \A t \in Buttons : pc[t] \in {"none", "overlay", "ov_render", "acquire", "bookkeep"}
                                    \cup LockedPcs

\* a refresh saved a plugin's image and failed (no timestamp was written); the
\* loop is alive and idle, the lock is free
C5_Witness ==
    /\ snapshot.src \in PluginIdx
    /\ \A p \in PluginIdx : lastRefresh[p] = 0
    /\ \A t \in Buttons : pc[t] = "none"
    /\ pc[SchedT] = "idle"
    /\ running
    /\ lock = {}
    /\ Alive

\* C6: whenever stop() has returned and the process exits, no render-and-dispatch
\* to the Device Driver is in flight and the loop has exited, the renders of the
\* button handlers' daemon threads included. (Stated for the exits at which the
\* loop did exit and the lock was free, that is, without the timeout's help.)
C6_NoRenderInFlightAfterStop ==
    (pc[MainT] = "exited" /\ pc[SchedT] = "exited" /\ lock = {}) =>
        \A t \in Threads : inflight[t] = NoCall

\* C7: in every display_image call the incoming image is persisted unmodified
\* before any transformation; then orientation, resize with the given settings,
\* a 180-degree rotation iff the inverted flag is set, enhancement; the driver is
\* invoked once, last, with the transformed image and the caller's settings.
C7_PipelineOrder ==
    [][\A t \in Threads :
         /\ (pc[t] = "di_save" /\ pc'[t] = "di_transform") =>
              /\ snapshot' = RawInput(t)
              /\ img'[t] = RawInput(t)
         /\ pc'[t] \in {"di_save", "di_transform"} =>
              /\ img'[t] = RawInput(t)'
              /\ inflight'[t] = NoCall
         /\ pc'[t] = "di_render" =>
              /\ inflight'[t].image.src = RawInput(t)'.src
              /\ inflight'[t].image.ops =
                    IF inflight'[t].inverted
                    THEN <<"orientation", "resize", "rotate180", "enhance">>
                    ELSE <<"orientation", "resize", "enhance">>
              /\ inflight'[t].image.size = "device"
              /\ inflight'[t].image.fit = CallSettings(t)'
              /\ inflight'[t].image.overlay = <<>>
              /\ inflight'[t].settings = CallSettings(t)'
         /\ (pc[t] = "di_render" /\ pc'[t] # "di_render") => inflight'[t] = NoCall]_vars

\* a display_image call with the inverted flag set is in the driver, its raw input
\* in the snapshot
C7_Witness ==
    \E t \in Threads :
        /\ pc[t] = "di_render"
        /\ inflight[t].inverted
        /\ snapshot = RawInput(t)

\* C8: a display_image call that ends in an error (in a transform step or in the
\* driver's render) leaves the snapshot as it was before the call, so the
\* snapshot holds the raw input of the most recent call that succeeded.
C8_FailedCallKeepsSnapshot ==
    [][\A t \in Threads :
         (/\ InDisplayImage(t)
          /\ ~InDisplayImage(t)'
          /\ IF t = MainT THEN pc'[t] = "crashed" ELSE result'[t] = "error")
         => snapshot' = snapBefore[t]]_vars

\* C9: display_overlay never changes the snapshot: no step of it writes the
\* snapshot, which stays an image as display_image was handed it, with no
\* transformation applied and no overlay box drawn.
C9_OverlayKeepsSnapshot ==
    [][/\ \A t \in Buttons : (InOverlay(t) /\ pc'[t] # pc[t]) => snapshot' = snapshot
       /\ snapshot'.ops = <<>>
       /\ snapshot'.overlay = <<>>]_vars

\* an overlay composed on a plugin's snapshot is in the driver; the snapshot is
\* still the raw image
C9_Witness ==
    \E t \in Buttons :
        /\ pc[t] = "ov_render"
        /\ inflight[t].image.overlay = <<"Updating...">>
        /\ inflight[t].image.src \in PluginIdx
        /\ snapshot = PluginImage(snapshot.src)

\* C10: display_overlay never raises to its caller: whatever step of it fails,
\* the call returns and the thread goes on to manual_update.
C10_OverlayNeverRaises ==
    [][\A t \in Buttons : (InOverlay(t) /\ ~InOverlay(t)') => pc'[t] = "acquire"]_vars

\* an overlay failed, was logged, and its thread is calling manual_update
C10_Witness ==
    \E t \in Buttons : t \in ovFailed /\ pc[t] = "acquire"

\* C11: display_overlay never acquires or waits for the single-flight lock: an
\* overlay started while a refresh holds the lock can always take its next step
\* and reaches the driver without the lock; it composes on the snapshot as it
\* finds it, whatever display_image is doing; and the panel shows the image of
\* whichever dispatch entered the driver last.
C11_OverlayRacesRefresh ==
    [][/\ \A t \in Buttons :
            /\ (pc[t] = "overlay" /\ Alive) => ENABLED DisplayOverlayCompose(t)
            /\ InOverlay(t) => t \notin lock
            /\ (InOverlay(t) /\ pc'[t] # pc[t]) => lock' = lock
            /\ (pc[t] = "overlay" /\ pc'[t] = "ov_render") =>
                  inflight'[t].image.src = OverlayBase(snapshot).src
       /\ \A t \in Threads :
            (inflight[t] = NoCall /\ inflight'[t] # NoCall) =>
                displayed' = inflight'[t].image
       /\ displayed' # displayed =>
            \E t \in Threads : inflight[t] = NoCall /\ inflight'[t] # NoCall]_vars

\* an overlay entered the driver after the lock holder's render did, composed on
\* the image that render had just saved: the panel shows the overlay
C11_Witness ==
    \E t \in Buttons :
        /\ pc[t] = "ov_render"
        /\ pc[SchedT] = "di_render"
        /\ lock = {SchedT}
        /\ inflight[t].image.src = act[SchedT]
        /\ displayed = inflight[t].image

\* C12: DisplayManager construction selects the driver by first match: device
\* type exactly "mock" gives the mock driver, else exactly "inky" the primary
\* driver, else a match of "epd*in*" the secondary driver; any other string fails
\* with the configuration error (ValueError) and leaves no driver instance.
C12_DriverByFirstMatch ==
    (deviceConfig.has /\ (display # "none" \/ ctorError # "none")) =>
        LET ty == deviceConfig.display_type IN
        /\ ty = TypeMock => (display = "MockDisplay" /\ ctorError = "none")
        /\ ty = TypeInky => (display = "InkyDisplay" /\ ctorError = "none")
        /\ ty \in {TypeEpd7in5, TypeEpd2in13, TypeEpdin, TypeEpd7in5V2} =>
              (display = "WaveshareDisplay" /\ ctorError = "none")
        /\ ty \in {TypeBanana, TypeEmpty, TypeMockUpper, TypeMockup, TypeInky2, TypeEpd,
                    TypeEpd7, TypeXepd7in5, TypeEpdni, TypeEpdUpper, TypeWaveshare} =>
              (display = "none" /\ ctorError = "ValueError")

\* C13: a hardware driver whose import failed is absent from the match set:
\* construction with a device type that would select it fails with the same
\* configuration error (ValueError) as an unmatched type, and no other kind of
\* error escapes construction.
C13_UnavailableDriverIsUnmatched ==
    LET ty == IF deviceConfig.has THEN deviceConfig.display_type ELSE TypeInky
        wanted == IF ty = TypeInky THEN {"InkyDisplay"}
                  ELSE IF ty \in {TypeEpd7in5, TypeEpd2in13, TypeEpdin, TypeEpd7in5V2}
                       THEN {"WaveshareDisplay"}
                       ELSE {}
    IN  /\ ctorError \in {"none", "ValueError"}
        /\ ((display # "none" \/ ctorError # "none") /\ wanted \ loadedDrivers # {}) =>
              (display = "none" /\ ctorError = "ValueError")

\* C14: the box is anchored to the right inset only when position[0] is exactly
\* "right" and to the bottom inset only when position[1] is exactly "bottom";
\* any other first element gives the left anchor and any other second element
\* the top anchor, each independently of the other; the box is the text's size
\* plus the padding on every side.
C14_OverlayAnchors ==
    box # <<>> =>
        /\ IF position[1] = "right"
           THEN box[3] = baseSize[1] - Inset
           ELSE box[1] = Inset
        /\ IF position[2] = "bottom"
           THEN box[4] = baseSize[2] - Inset
           ELSE box[2] = Inset
        /\ box[3] - box[1] =
              (IF textBox.bbox = <<>> THEN textBox.len * FallbackCharWidth
               ELSE textBox.bbox[3] - textBox.bbox[1]) + 2 * Padding
        /\ box[4] - box[2] =
              (IF textBox.bbox = <<>> THEN FallbackTextHeight
               ELSE textBox.bbox[4] - textBox.bbox[2]) + 2 * Padding

\* values that belong to the other axis are unrecognized: left and top anchors
C14_Witness ==
    /\ position = <<"bottom", "right">>
    /\ baseSize = <<800, 480>>
    /\ box # <<>>
    /\ box[1] = Inset
    /\ box[2] = Inset

\* C15: whenever a refresh target is derived from the playlist's current index,
\* by a tick or by the refresh-button handler, the index is read under the
\* refresh lock (the deriving thread holds it) and is null or a valid position;
\* a null index in the refresh-button handler targets the first plugin.
C15_IndexReadUnderLock ==
    [][/\ (pc[SchedT] = "acquire" /\ pc'[SchedT] = "generate") =>
            /\ SchedT \in lock'
            /\ curIndex \in PluginIdx
            /\ act'[SchedT] = curIndex
       /\ \A t \in Buttons :
            (pc[t] = "none" /\ pc'[t] = "overlay" /\ curIndex' = curIndex) =>
                /\ t \in lock'
                /\ curIndex \in PluginIdx \cup {NoIndex}
                /\ act'[t] = IF curIndex = NoIndex THEN 0 ELSE curIndex]_vars

\* C16: a manual_update call runs the full pipeline exactly once (generate, then
\* display_image's save, transformation and one driver render, no stage entered
\* twice) whether or not its target is due, so a second call for the plugin that
\* the first has just refreshed is not skipped; and each call that rendered
\* writes the target's last-refresh timestamp: the time its own render returned.
C16_ManualUpdateEachTime ==
    [][\A t \in Buttons :
         /\ (pc[t] = "acquire" /\ pc'[t] # "acquire") => pc'[t] = "generate"
         /\ (pc[t] = "generate" /\ pc'[t] # "generate") => pc'[t] \in {"di_save", "release"}
         /\ (pc[t] = "di_save" /\ pc'[t] # "di_save") => pc'[t] \in {"di_transform", "release"}
         /\ (pc[t] = "di_transform" /\ pc'[t] # "di_transform") =>
                pc'[t] \in {"di_render", "release"}
         /\ (pc[t] = "di_render" /\ pc'[t] # "di_render") =>
                /\ pc'[t] = "release"
                /\ inflight'[t] = NoCall
         /\ (pc[t] = "release" /\ pc'[t] # "release") =>
                pc'[t] = IF result[t] = "ok" THEN "bookkeep" ELSE "none"
         /\ (pc[t] = "release" /\ result[t] = "ok") => t \in rendered
         /\ (pc[t] = "bookkeep" /\ pc'[t] # "bookkeep") =>
                /\ pc'[t] = "none"
                /\ lastRefresh'[act[t]] = doneAt[t]]_vars

\* no automatic refresh has ever been due (the index is null); the plugin was
\* refreshed by a manual call and is not due; a second manual call for it has
\* rendered and is about to write the timestamp again
C16_Witness ==
    \E t \in Buttons :
        /\ curIndex = NoIndex
        /\ pc[SchedT] = "idle"
        /\ pc[t] = "bookkeep"
        /\ t \in rendered
        /\ lastRefresh[act[t]] > 0
        /\ ~Due(act[t])

\* C18: every image the Device Driver receives, from display_image or from
\* display_overlay, has the configured device resolution and orientation: it is
\* device-sized, and unless it is the blank canvas it went through the
\* orientation and resize steps.
C18_DriverGetsDeviceImage ==
    \A t \in Threads :
        inflight[t] # NoCall =>
            /\ inflight[t].image.size = "device"
            /\ inflight[t].image.src # BlankSrc =>
                  /\ \E i \in 1..Len(inflight[t].image.ops) :
                        inflight[t].image.ops[i] = "orientation"
                  /\ \E i \in 1..Len(inflight[t].image.ops) :
                        inflight[t].image.ops[i] = "resize"

\* C20: the "Updating..." overlay of a button press is never the final content
\* of the display: once every button thread has ended, with the loop idle, no
\* plugin instance current (so no tick has anything due) and the main program
\* outside display_image, the panel does not show an overlay; a full
\* display_image render has reached the driver after it, also when the thread's
\* manual_update failed.
C20_OverlayNeverFinal ==
    (/\ \A t \in Buttons : pc[t] = "none"
     /\ pc[SchedT] = "idle"
     /\ curIndex = NoIndex
     /\ ~InDisplayImage(MainT)
     /\ lock = {})
    => displayed.overlay = <<>>

\* C19: the next-plugin button advances the playlist cursor at once in the button
\* callback, outside the refresh lock, and renders in a thread of its own; once
\* the refreshes of all next-button presses have completed (none failed, no
\* automatic refresh was due), the plugin whose image was last sent through
\* display_image is the plugin at the playlist's current index.
C19_NextShowsCurrent ==
    [][/\ \A t \in Buttons :
            (pc[t] = "none" /\ pc'[t] = "overlay") =>
                /\ curIndex' = NextIndex(curIndex)
                /\ act'[t] = curIndex'
                /\ lock' = lock
       /\ ((\A t \in Buttons : pc'[t] = "none") /\ snapshot' # NoImage) =>
            snapshot'.src = curIndex']_vars

\* C17: with a playlist of 3 plugin instances, each with a 60-unit interval, one
\* tick per time unit, no failures and no manual calls, the current index stays
\* at its start value through the first 60 ticks and after 61 ticks has
\* advanced by exactly 1, cyclically.
C17_OneAdvanceIn61Ticks ==
    /\ (Len(ticks) >= 1 /\ Len(ticks) < ScenarioTicks) => curIndex = ticks[1]
    /\ (Len(ticks) = ScenarioTicks /\ pc[SchedT] = "idle") =>
            curIndex = (ticks[1] + 1) % ScenarioPlugins

\* the 61st tick found the start plugin due; its refresh is complete
C17_Witness ==
    /\ Len(ticks) = ScenarioTicks
    /\ pc[SchedT] = "idle"
    /\ lock = {}
    /\ ticks[ScenarioTicks] = ticks[1]
    /\ lastRefresh[ticks[1]] = ScenarioInterval
    /\ snapshot = PluginImage(ticks[1])
    /\ curIndex # ticks[1]


\* C21: the LED strip starts OFF; whenever no LED operation is under way,
\* is_on equals the state last successfully written to the LED pin, also after
\* a hardware on/off call raised; with no LED device is_on is always False.
C21_FlagMatchesPin ==
    /\ led = "None" => is_on = FALSE
    /\ (\A t \in LedCallers : ledPc[t] = LedIdle) => is_on = pin

====
